---- MODULE Spec2Model ----
(***************************************************************************)
(* The frontend API client of the BundesFAQ chatbot                        *)
(* (frontend/src/api/api.ts): one function per backend endpoint, the mock  *)
(* results that configApi, askApi and chatApi fall back to, and the mock   *)
(* NDJSON stream that chatApi paces with setTimeout.                       *)
(*                                                                         *)
(* A JavaScript string is modelled as the sequence of its characters, so   *)
(* that split, concatenation and template interpolation are computed and   *)
(* not assumed.  The functions keep no state between calls (the only       *)
(* module-level binding is the constant BACKEND_URI), so the model follows *)
(* one invocation at a time: `call` is the most recent invocation with its *)
(* settled promise, `streams` the mock streams it returned.                *)
(***************************************************************************)
EXTENDS Integers, Sequences, FiniteSets, TLC

VARIABLES call, streams

vars == <<call, streams>>

(***************************************************************************)
(* Bounds of the model.                                                    *)
(***************************************************************************)
\* the longest messages sequence of a request
MaxMsgs == 2

\* the longest citation string
MaxCitationLen == 6

(***************************************************************************)
(* Strings.                                                                *)
(***************************************************************************)
\* api.ts:1  const BACKEND_URI = ""
BACKEND_URI == <<>>

\* the separator of mockResponse.split(' ') and the character appended to
\* every token, api.ts:125,132,136
Space == " "

\* Split, had the text been split on runs of the separator (as split(/ +/)
\* does): empty pieces between adjacent separators are lost
RECURSIVE SplitOnRuns(_, _)
SplitOnRuns(s, sep) ==
    IF \E k \in 1..Len(s) : s[k] = sep
    THEN LET k == CHOOSE j \in 1..Len(s) :
                     /\ s[j] = sep
                     /\ \A h \in 1..(j - 1) : s[h] # sep
             rest == SplitOnRuns(SubSeq(s, k + 1, Len(s)), sep)
         IN  <<SubSeq(s, 1, k - 1)>> \o (IF Head(rest) = <<>> /\ Len(rest) > 1
                                          THEN Tail(rest) ELSE rest)
    ELSE <<s>>

\* String.prototype.split(sep) with a one-character separator: the pieces
\* between the separators, empty pieces kept; a string without separator is
\* its own single piece (so the result is never empty).
RECURSIVE Split(_, _)
Split(s, sep) ==
    IF \E k \in 1..Len(s) : s[k] = sep
    THEN LET k == CHOOSE j \in 1..Len(s) :
                     /\ s[j] = sep
                     /\ \A h \in 1..(j - 1) : s[h] # sep
         IN  <<SubSeq(s, 1, k - 1)>> \o Split(SubSeq(s, k + 1, Len(s)), sep)
    ELSE <<s>>

(***************************************************************************)
(* The fixed text of the two mock answers, around ${lastMessage.content}.  *)
(***************************************************************************)
AskMockPrefix ==
    <<
       "T", "h", "i", "s", " ", "i", "s", " ", "a", " ", "m", "o", "c", "k", " ", "r",
       "e", "s", "p", "o", "n", "s", "e", " ", "t", "o", " ", "y", "o", "u", "r", " ",
       "q", "u", "e", "s", "t", "i", "o", "n", ":", " ", "\""
    >>

AskMockSuffix ==
    <<
       "\"", "\n", "\n", "T", "h", "e", " ", "B", "u", "n", "d", "e", "s", "F", "A", "Q",
       " ", "C", "h", "a", "t", "b", "o", "t", " ", "b", "a", "c", "k", "e", "n", "d",
       " ", "i", "s", " ", "n", "o", "t", " ", "c", "u", "r", "r", "e", "n", "t", "l",
       "y", " ", "r", "u", "n", "n", "i", "n", "g", ".", " ", "T", "o", " ", "g", "e",
       "t", " ", "r", "e", "a", "l", " ", "r", "e", "s", "p", "o", "n", "s", "e", "s",
       " ", "a", "b", "o", "u", "t", " ", "G", "e", "r", "m", "a", "n", " ", "f", "e",
       "d", "e", "r", "a", "l", " ", "l", "a", "w", "s", " ", "a", "n", "d", " ", "r",
       "e", "g", "u", "l", "a", "t", "i", "o", "n", "s", ",", " ", "y", "o", "u", "'",
       "l", "l", " ", "n", "e", "e", "d", " ", "t", "o", ":", "\n", "\n", "1", ".", " ",
       "S", "e", "t", " ", "u", "p", " ", "a", "n", "d", " ", "s", "t", "a", "r", "t",
       " ", "y", "o", "u", "r", " ", "b", "a", "c", "k", "e", "n", "d", " ", "s", "e",
       "r", "v", "e", "r", "\n", "2", ".", " ", "C", "o", "n", "f", "i", "g", "u", "r",
       "e", " ", "t", "h", "e", " ", "A", "P", "I", " ", "e", "n", "d", "p", "o", "i",
       "n", "t", "s", " ", "p", "r", "o", "p", "e", "r", "l", "y", "\n", "3", ".", " ",
       "C", "o", "n", "n", "e", "c", "t", " ", "t", "o", " ", "A", "z", "u", "r", "e",
       " ", "O", "p", "e", "n", "A", "I", " ", "o", "r", " ", "a", "n", "o", "t", "h",
       "e", "r", " ", "L", "L", "M", " ", "s", "e", "r", "v", "i", "c", "e", "\n", "\n",
       "F", "o", "r", " ", "n", "o", "w", ",", " ", "t", "h", "i", "s", " ", "f", "r",
       "o", "n", "t", "e", "n", "d", " ", "i", "s", " ", "w", "o", "r", "k", "i", "n",
       "g", " ", "i", "n", " ", "d", "e", "m", "o", " ", "m", "o", "d", "e", "."
    >>

ChatMockPrefix ==
    <<
       "T", "h", "i", "s", " ", "i", "s", " ", "a", " ", "m", "o", "c", "k", " ", "s",
       "t", "r", "e", "a", "m", "i", "n", "g", " ", "r", "e", "s", "p", "o", "n", "s",
       "e", " ", "t", "o", ":", " ", "\""
    >>

ChatMockSuffix ==
    <<
       "\"", "\n", "\n", "T", "h", "e", " ", "B", "u", "n", "d", "e", "s", "F", "A", "Q",
       " ", "C", "h", "a", "t", "b", "o", "t", " ", "b", "a", "c", "k", "e", "n", "d",
       " ", "i", "s", " ", "n", "o", "t", " ", "c", "u", "r", "r", "e", "n", "t", "l",
       "y", " ", "r", "u", "n", "n", "i", "n", "g", ".", " ", "T", "h", "i", "s", " ",
       "f", "r", "o", "n", "t", "e", "n", "d", " ", "i", "s", " ", "w", "o", "r", "k",
       "i", "n", "g", " ", "i", "n", " ", "d", "e", "m", "o", " ", "m", "o", "d", "e",
       ".", "\n", "\n", "T", "o", " ", "g", "e", "t", " ", "r", "e", "a", "l", " ", "r",
       "e", "s", "p", "o", "n", "s", "e", "s", " ", "a", "b", "o", "u", "t", " ", "G",
       "e", "r", "m", "a", "n", " ", "f", "e", "d", "e", "r", "a", "l", " ", "l", "a",
       "w", "s", " ", "a", "n", "d", " ", "r", "e", "g", "u", "l", "a", "t", "i", "o",
       "n", "s", ",", " ", "y", "o", "u", "'", "l", "l", " ", "n", "e", "e", "d", " ",
       "t", "o", " ", "s", "e", "t", " ", "u", "p", " ", "y", "o", "u", "r", " ", "b",
       "a", "c", "k", "e", "n", "d", " ", "s", "e", "r", "v", "e", "r", "."
    >>


(***************************************************************************)
(* Inputs: requests, and what the network can answer.                      *)
(***************************************************************************)
\* ChatAppRequest.messages entries (models.ts is not part of the sources;
\* api.ts reads only .messages, .length and .content).  The contents are
\* chosen to contain no text of the fixed notices: one token, two tokens
\* around a double space, and a leading space.
Messages ==
    { [role |-> "user",      content |-> <<"?">>],
      [role |-> "assistant", content |-> <<"x", " ", " ", "y">>],
      [role |-> "system",    content |-> <<" ", "z">>] }

RECURSIVE SeqsUpTo(_, _)
SeqsUpTo(S, n) ==
    IF n = 0 THEN {<<>>}
    ELSE LET shorter == SeqsUpTo(S, n - 1)
         IN  shorter \cup { Append(q, x) : q \in shorter, x \in S }

\* the requests a caller can pass; the empty messages sequence is one of
\* them, since nothing validates a request before dispatch
Requests == { [messages |-> ms] : ms \in SeqsUpTo(Messages, MaxMsgs) }

\* HTTP statuses a fetch can resolve with, on both sides of 200..299
Statuses == {200, 299, 300, 400, 500}

\* Response.statusText: the reason phrase, or "" (HTTP/2 sends none)
ReasonPhrase(status) ==
    CASE status = 200 -> "OK"
      [] status = 299 -> "OK"
      [] status = 300 -> "Multiple Choices"
      [] status = 400 -> "Bad Request"
      [] status = 500 -> "Internal Server Error"

\* response bodies as response.json() sees them: text that does not parse,
\* a JSON value without an error field, {error: "X"} and {error: ""}
Bodies ==
    { [parses |-> FALSE, hasError |-> FALSE, error |-> "", data |-> "not json"],
      [parses |-> TRUE,  hasError |-> FALSE, error |-> "", data |-> "payload"],
      [parses |-> TRUE,  hasError |-> TRUE,  error |-> "X", data |-> ""],
      [parses |-> TRUE,  hasError |-> TRUE,  error |-> "", data |-> ""] }

NoBody == [parses |-> FALSE, hasError |-> FALSE, error |-> "", data |-> ""]

\* fetch() rejects (the backend is unreachable) ...
NetReject ==
    [kind |-> "reject", status |-> 0, statusText |-> "", body |-> NoBody]

\* ... or resolves with a Response, whatever its status
NetResponses ==
    UNION { { [kind |-> "response", status |-> st, statusText |-> tx, body |-> b] :
                tx \in {"", ReasonPhrase(st)}, b \in Bodies } : st \in Statuses }

Nets == {NetReject} \cup NetResponses

\* Response.ok: the status is in the range 200-299
Ok(net) == net.kind = "response" /\ net.status >= 200 /\ net.status <= 299

\* JavaScript truthiness of a string: every string but ""
Truthy(str) == str # ""

(***************************************************************************)
(* Settled promises.                                                       *)
(***************************************************************************)
Resolved(v) == [kind |-> "resolved", value |-> v]

\* a rejection with an Error whose message is the text `prefix${detail}`
Rejected(name, prefix, detail) ==
    [kind |-> "rejected",
     value |-> [name |-> name, prefix |-> prefix, detail |-> detail]]

\* what fetch rejects with when the backend is unreachable
FetchFailed == Rejected("TypeError", "Failed to fetch", "")

\* what response.json() rejects with on a body that is not JSON
JsonFailed == Rejected("SyntaxError", "Unexpected token", "")

\* reading .content of request.messages[-1], which is undefined
UndefinedContent ==
    Rejected("TypeError", "Cannot read properties of undefined", "content")

\* the value of response.json(), or its rejection
Json(net) == IF net.body.parses THEN Resolved(net.body) ELSE JsonFailed

(***************************************************************************)
(* configApi                                                               *)
(***************************************************************************)
\* the Config literal of the catch block
MockConfig ==
    [defaultReasoningEffort |-> "medium",
     showMultimodalOptions |-> FALSE,
     showSemanticRankerOption |-> TRUE,
     showQueryRewritingOption |-> TRUE,
     showReasoningEffortOption |-> FALSE,
     streamingEnabled |-> TRUE,
     showVectorOption |-> TRUE,
     showUserUpload |-> TRUE,
     showLanguagePicker |-> TRUE,
     showSpeechInput |-> FALSE,
     showSpeechOutputBrowser |-> FALSE,
     showSpeechOutputAzure |-> FALSE,
     showChatHistoryBrowser |-> TRUE,
     showChatHistoryCosmos |-> FALSE,
     showAgenticRetrievalOption |-> FALSE,
     ragSearchTextEmbeddings |-> TRUE,
     ragSearchImageEmbeddings |-> FALSE,
     ragSendTextSources |-> TRUE,
     ragSendImageSources |-> FALSE]

\* configApi without its try/catch: the failure of fetch or of json()
\* rejects the returned promise
configApiUncaught(net) ==
    IF net.kind = "reject" THEN FetchFailed
    ELSE IF Json(net).kind = "rejected" THEN JsonFailed
    ELSE Resolved(net.body)

\* try { return await (await fetch()).json() } catch { return MockConfig }:
\* the status is not looked at; a rejected fetch and a body that does not
\* parse both land in the catch block
configApi(net) ==
    IF net.kind = "reject" THEN Resolved(MockConfig)
    ELSE IF Json(net).kind = "rejected" THEN Resolved(MockConfig)
    ELSE Resolved(net.body)

(***************************************************************************)
(* askApi                                                                  *)
(***************************************************************************)
\* the ChatAppResponse literal of the catch block
AskMockResponse(lastMessage) ==
    [message |-> [content |-> AskMockPrefix \o lastMessage.content \o AskMockSuffix,
                  role |-> "assistant"],
     delta |-> [content |-> <<>>, role |-> "assistant"],
     context |->
        [data_points |-> [text |-> <<>>, images |-> <<>>, citations |-> <<>>],
         followup_questions |->
            << "How do I set up the backend?",
               "What APIs need to be implemented?",
               "How do I connect to Azure OpenAI?" >>,
         thoughts |->
            << [title |-> "Mock Response",
                description |->
                  "Backend server not available - displaying demo response"] >>],
     session_state |-> "null"]

\* AskCatch, had it read lastMessage?.content: the text of undefined in a
\* template is "undefined"
AskCatchOptionalContent(request) ==
    IF Len(request.messages) = 0
    THEN Resolved(AskMockResponse(
             [content |-> <<"u", "n", "d", "e", "f", "i", "n", "e", "d">>]))
    ELSE Resolved(AskMockResponse(request.messages[Len(request.messages)]))

\* AskCatch, had it read request.messages[0]
AskCatchFirstMessage(request) ==
    IF Len(request.messages) = 0 THEN UndefinedContent
    ELSE Resolved(AskMockResponse(request.messages[1]))

\* the catch block: request.messages[request.messages.length - 1] is
\* undefined for an empty sequence, and reading its .content throws
AskCatch(request) ==
    IF Len(request.messages) = 0 THEN UndefinedContent
    ELSE Resolved(AskMockResponse(request.messages[Len(request.messages)]))

\* AskTry without the check of the status
AskTryAnyStatus(net) ==
    IF net.kind = "reject" THEN FetchFailed
    ELSE IF Json(net).kind = "rejected" THEN JsonFailed
    ELSE IF Truthy(net.body.error) THEN Rejected("Error", "", net.body.error)
    ELSE Resolved(net.body)

\* the try block: what it returns, or the error it throws
AskTry(net) ==
    IF net.kind = "reject" THEN FetchFailed
    ELSE IF net.status > 299 \/ ~Ok(net)
         THEN Rejected("Error", "Request failed with status ", ToString(net.status))
    ELSE IF Json(net).kind = "rejected" THEN JsonFailed
    ELSE IF Truthy(net.body.error) THEN Rejected("Error", "", net.body.error)
    ELSE Resolved(net.body)

\* every error thrown in the try block, the one made from
\* parsedResponse.error included, is caught by the catch block
askApi(request, net) ==
    IF AskTry(net).kind = "rejected" THEN AskCatch(request) ELSE AskTry(net)

(***************************************************************************)
(* The pass-through operations.                                            *)
(***************************************************************************)
\* PassThrough, had it reported the status code in place of the status text
PassThroughStatusCode(label, net) ==
    IF net.kind = "reject" THEN FetchFailed
    ELSE IF ~Ok(net) THEN Rejected("Error", label, ToString(net.status))
    ELSE Json(net)

\* const response = await fetch(...); if (!response.ok) throw new
\* Error(`${label}${response.statusText}`); return await response.json()
PassThrough(label, net) ==
    IF net.kind = "reject" THEN FetchFailed
    ELSE IF ~Ok(net) THEN Rejected("Error", label, net.statusText)
    ELSE Json(net)

uploadFileApi(net) == PassThrough("Uploading files failed: ", net)

deleteUploadedFileApi(net) == PassThrough("Deleting file failed: ", net)

listUploadedFilesApi(net) == PassThrough("Listing files failed: ", net)

postChatHistoryApi(net) == PassThrough("Posting chat history failed: ", net)

getChatHistoryListApi(net) == PassThrough("Getting chat histories failed: ", net)

getChatHistoryApi(net) == PassThrough("Getting chat history failed: ", net)

\* the body of the response is not read: the promise resolves to undefined
deleteChatHistoryApi(net) ==
    IF net.kind = "reject" THEN FetchFailed
    ELSE IF ~Ok(net) THEN Rejected("Error", "Deleting chat history failed: ", net.statusText)
    ELSE Resolved([parses |-> FALSE, hasError |-> FALSE, error |-> "", data |-> "undefined"])

PassThroughOps ==
    { "uploadFileApi", "deleteUploadedFileApi", "listUploadedFilesApi",
      "postChatHistoryApi", "getChatHistoryListApi", "getChatHistoryApi",
      "deleteChatHistoryApi" }

PassThroughApi(op, net) ==
    CASE op = "uploadFileApi"         -> uploadFileApi(net)
      [] op = "deleteUploadedFileApi" -> deleteUploadedFileApi(net)
      [] op = "listUploadedFilesApi"  -> listUploadedFilesApi(net)
      [] op = "postChatHistoryApi"    -> postChatHistoryApi(net)
      [] op = "getChatHistoryListApi" -> getChatHistoryListApi(net)
      [] op = "getChatHistoryApi"     -> getChatHistoryApi(net)
      [] op = "deleteChatHistoryApi"  -> deleteChatHistoryApi(net)

(***************************************************************************)
(* getSpeechApi                                                            *)
(***************************************************************************)
\* the null that stands for "no speech"
Null == [isNull |-> TRUE, blob |-> NoBody]

\* URL.createObjectURL(blob): a blob: URL for the bytes of the response
ObjectURL(body) == [isNull |-> FALSE, blob |-> body]

\* fetch("/speech", ...).then(status == 200 ? response.blob() : null)
\*                      .then(blob => blob ? URL.createObjectURL(blob) : null)
\* There is no catch and no second argument of then: a rejection of the
\* fetch passes through both then() and rejects the returned promise.  A
\* Blob is an object, hence truthy, whatever its size.
getSpeechApi(net) ==
    IF net.kind = "reject" THEN FetchFailed
    ELSE IF net.status = 200 THEN Resolved(ObjectURL(net.body))
    ELSE IF net.status = 400 THEN Resolved(Null)
    ELSE Resolved(Null)

(***************************************************************************)
(* chatApi and its mock stream.                                            *)
(***************************************************************************)
\* the text the mock stream spells out
ChatMockResponse(lastMessage) ==
    ChatMockPrefix \o lastMessage.content \o ChatMockSuffix

\* the object sendChunk builds for one token
Chunk(token) ==
    [message |-> [content |-> token \o <<Space>>, role |-> "assistant"],
     delta |-> [content |-> token \o <<Space>>, role |-> "assistant"],
     context |->
        [data_points |-> [text |-> <<>>, images |-> <<>>, citations |-> <<>>],
         followup_questions |-> "null",
         thoughts |-> <<>>],
     session_state |-> "null"]

\* what is enqueued: the bytes of JSON.stringify(chunk) + '\n'.  The chunk
\* holds only strings, null and empty arrays, which JSON.stringify writes
\* and JSON.parse reads back unchanged, so the line is kept as its object
\* and its terminator.
NdjsonLine(chunk) == [object |-> chunk, terminator |-> "\n"]

\* JSON.stringify of one character of a string, had it written the
\* character as it is
JsonEscapeNothing(c) == <<c>>

\* JSON.stringify of one character of a string (QuoteJSONString): the quote,
\* the backslash and the control characters are written as escapes
JsonEscape(c) ==
    IF c = "\"" THEN <<"\\", "\"">>
    ELSE IF c = "\\" THEN <<"\\", "\\">>
    ELSE IF c = "\n" THEN <<"\\", "n">>
    ELSE IF c = "\r" THEN <<"\\", "r">>
    ELSE IF c = "\t" THEN <<"\\", "t">>
    ELSE <<c>>

\* JSON.stringify of a string: its escaped characters between two quotes
JsonText(s) ==
    LET Escaped[j \in 0..Len(s)] ==
            IF j = 0 THEN <<>> ELSE Escaped[j - 1] \o JsonEscape(s[j])
    IN  <<"\"">> \o Escaped[Len(s)] \o <<"\"">>

\* what JSON.stringify writes of the chunk literal around its two content
\* strings: the keys in the order of the literal, no white space
ChunkJsonHead ==
    <<
       "{", "\"", "m", "e", "s", "s", "a", "g", "e", "\"", ":", "{", "\"", "c", "o", "n",
       "t", "e", "n", "t", "\"", ":"
    >>

ChunkJsonMiddle ==
    <<
       ",", "\"", "r", "o", "l", "e", "\"", ":", "\"", "a", "s", "s", "i", "s", "t", "a",
       "n", "t", "\"", "}", ",", "\"", "d", "e", "l", "t", "a", "\"", ":", "{", "\"", "c",
       "o", "n", "t", "e", "n", "t", "\"", ":"
    >>

ChunkJsonTail ==
    <<
       ",", "\"", "r", "o", "l", "e", "\"", ":", "\"", "a", "s", "s", "i", "s", "t", "a",
       "n", "t", "\"", "}", ",", "\"", "c", "o", "n", "t", "e", "x", "t", "\"", ":", "{",
       "\"", "d", "a", "t", "a", "_", "p", "o", "i", "n", "t", "s", "\"", ":", "{", "\"",
       "t", "e", "x", "t", "\"", ":", "[", "]", ",", "\"", "i", "m", "a", "g", "e", "s",
       "\"", ":", "[", "]", ",", "\"", "c", "i", "t", "a", "t", "i", "o", "n", "s", "\"",
       ":", "[", "]", "}", ",", "\"", "f", "o", "l", "l", "o", "w", "u", "p", "_", "q",
       "u", "e", "s", "t", "i", "o", "n", "s", "\"", ":", "n", "u", "l", "l", ",", "\"",
       "t", "h", "o", "u", "g", "h", "t", "s", "\"", ":", "[", "]", "}", ",", "\"", "s",
       "e", "s", "s", "i", "o", "n", "_", "s", "t", "a", "t", "e", "\"", ":", "n", "u",
       "l", "l", "}"
    >>

\* JSON.stringify(chunk)
JsonStringify(chunk) ==
    ChunkJsonHead \o JsonText(chunk.message.content)
        \o ChunkJsonMiddle \o JsonText(chunk.delta.content)
        \o ChunkJsonTail

\* the characters whose bytes are enqueued for a line:
\* JSON.stringify(chunk) + '\n'
Encoded(line) == JsonStringify(line.object) \o <<line.terminator>>

\* ReadableStreamDefaultControllerCanCloseOrEnqueue: enqueue() and close()
\* throw a TypeError unless the stream is readable and close() has not been
\* called
CanCloseOrEnqueue(s) == s.state = "readable" /\ ~s.closeRequested

\* sendChunk, had it advanced i by two: every other token is skipped
sendChunkSkipping(s) ==
    IF s.i < Len(s.chunks)
    THEN IF CanCloseOrEnqueue(s)
         THEN [s EXCEPT !.emitted = Append(@, NdjsonLine(Chunk(s.chunks[s.i + 1]))),
                        !.unread = @ + 1,
                        !.enqueueCalls = @ + 1,
                        !.i = @ + 2,
                        !.timer = @ + 1]
         ELSE [s EXCEPT !.enqueueCalls = @ + 1, !.thrown = @ + 1]
    ELSE IF CanCloseOrEnqueue(s)
         THEN [s EXCEPT !.closeCalls = @ + 1,
                        !.closeRequested = TRUE,
                        !.state = IF s.unread = 0 THEN "closed" ELSE @]
         ELSE [s EXCEPT !.closeCalls = @ + 1, !.thrown = @ + 1]

\* sendChunk, had it compared i with chunks.length - 1: the stream is closed
\* one token early
sendChunkClosingEarly(s) ==
    IF s.i < Len(s.chunks) - 1
    THEN IF CanCloseOrEnqueue(s)
         THEN [s EXCEPT !.emitted = Append(@, NdjsonLine(Chunk(s.chunks[s.i + 1]))),
                        !.unread = @ + 1,
                        !.enqueueCalls = @ + 1,
                        !.i = @ + 1,
                        !.timer = @ + 1]
         ELSE [s EXCEPT !.enqueueCalls = @ + 1, !.thrown = @ + 1]
    ELSE IF CanCloseOrEnqueue(s)
         THEN [s EXCEPT !.closeCalls = @ + 1,
                        !.closeRequested = TRUE,
                        !.state = IF s.unread = 0 THEN "closed" ELSE @]
         ELSE [s EXCEPT !.closeCalls = @ + 1, !.thrown = @ + 1]

\* sendChunk, had it called setTimeout twice after an enqueue
sendChunkTwoTimers(s) ==
    IF s.i < Len(s.chunks)
    THEN IF CanCloseOrEnqueue(s)
         THEN [s EXCEPT !.emitted = Append(@, NdjsonLine(Chunk(s.chunks[s.i + 1]))),
                        !.unread = @ + 1,
                        !.enqueueCalls = @ + 1,
                        !.i = @ + 1,
                        !.timer = @ + 2]
         ELSE [s EXCEPT !.enqueueCalls = @ + 1, !.thrown = @ + 1]
    ELSE IF CanCloseOrEnqueue(s)
         THEN [s EXCEPT !.closeCalls = @ + 1,
                        !.closeRequested = TRUE,
                        !.state = IF s.unread = 0 THEN "closed" ELSE @]
         ELSE [s EXCEPT !.closeCalls = @ + 1, !.thrown = @ + 1]

\* One run of sendChunk.  timer counts the callbacks that setTimeout has
\* scheduled and that have not run yet, enqueueCalls and closeCalls the
\* calls of controller.enqueue and controller.close, thrown the TypeErrors
\* they raised; a throwing enqueue leaves i++ and setTimeout unreached.
sendChunk(s) ==
    IF s.i < Len(s.chunks)
    THEN IF CanCloseOrEnqueue(s)
         THEN [s EXCEPT !.emitted = Append(@, NdjsonLine(Chunk(s.chunks[s.i + 1]))),
                        !.unread = @ + 1,
                        !.enqueueCalls = @ + 1,
                        !.i = @ + 1,
                        !.timer = @ + 1]
         ELSE [s EXCEPT !.enqueueCalls = @ + 1, !.thrown = @ + 1]
    ELSE IF CanCloseOrEnqueue(s)
         THEN [s EXCEPT !.closeCalls = @ + 1,
                        !.closeRequested = TRUE,
                        !.state = IF s.unread = 0 THEN "closed" ELSE @]
         ELSE [s EXCEPT !.closeCalls = @ + 1, !.thrown = @ + 1]

\* new ReadableStream({ start(controller) {...} }): start splits the text,
\* sets i = 0 and calls sendChunk() once, synchronously.  The underlying
\* source has no cancel() and no pull().
NewStream(mockResponse) ==
    sendChunk([text |-> mockResponse,
               chunks |-> Split(mockResponse, Space),
               i |-> 0,
               timer |-> 0,
               emitted |-> <<>>,
               unread |-> 0,
               state |-> "readable",
               closeRequested |-> FALSE,
               cancelled |-> FALSE,
               enqueueCalls |-> 0,
               closeCalls |-> 0,
               thrown |-> 0])

\* ChatUrl, had the suffix never been added
ChatUrlWithoutSuffix(shouldStream) ==
    BACKEND_URI \o <<"/", "c", "h", "a", "t">>

\* let url = `${BACKEND_URI}/chat`; if (shouldStream) url += "/stream"
ChatUrl(shouldStream) ==
    BACKEND_URI \o <<"/", "c", "h", "a", "t">>
        \o (IF shouldStream THEN <<"/", "s", "t", "r", "e", "a", "m">> ELSE <<>>)

\* the Response chatApi resolves to: the one fetch resolved with, whatever
\* its status, or new Response(stream, {headers}) around the mock stream
NetworkResponse(net) ==
    [source |-> "network", status |-> net.status,
     contentType |-> "as sent by the backend", body |-> net.body]

MockStreamResponse ==
    [source |-> "mock", status |-> 200,
     contentType |-> "application/x-ndjson", body |-> NoBody]

\* chatApi, had its catch block answered a non-streaming call with one
\* ChatResponse body instead of the stream
chatApiOneBodyUnlessStreaming(request, shouldStream, net) ==
    IF net.kind = "response"
    THEN [result |-> Resolved(NetworkResponse(net)), streams |-> <<>>]
    ELSE IF Len(request.messages) = 0
    THEN [result |-> UndefinedContent, streams |-> <<>>]
    ELSE IF ~shouldStream
    THEN [result |-> Resolved([source |-> "mock", status |-> 200,
                               contentType |-> "application/json",
                               body |-> NoBody]),
          streams |-> <<>>]
    ELSE [result |-> Resolved(MockStreamResponse),
          streams |-> << NewStream(ChatMockResponse(
                             request.messages[Len(request.messages)])) >>]

\* try { return await fetch(url, ...) } catch { ...mock stream... }: only a
\* rejected fetch reaches the catch block
chatApi(request, shouldStream, net) ==
    IF net.kind = "response"
    THEN [result |-> Resolved(NetworkResponse(net)), streams |-> <<>>]
    ELSE IF Len(request.messages) = 0
    THEN [result |-> UndefinedContent, streams |-> <<>>]
    ELSE [result |-> Resolved(MockStreamResponse),
          streams |-> << NewStream(ChatMockResponse(
                             request.messages[Len(request.messages)])) >>]

(***************************************************************************)
(* The state machine.                                                      *)
(***************************************************************************)
NoRequest == [messages |-> <<>>]

\* no answer yet: the fetch is in flight
NoNet == [kind |-> "pending", status |-> 0, statusText |-> "", body |-> NoBody]

\* nothing has been called yet
Idle ==
    [op |-> "none", request |-> NoRequest, shouldStream |-> FALSE,
     url |-> <<>>, net |-> NoNet, fetches |-> 0, settled |-> TRUE,
     result |-> Resolved(NoBody)]

\* a function has been called and has run up to its await fetch(...): one
\* request is on its way and the returned promise is pending
Invoked(op, request, shouldStream, url) ==
    [op |-> op, request |-> request, shouldStream |-> shouldStream,
     url |-> url, net |-> NoNet, fetches |-> 1, settled |-> FALSE,
     result |-> Resolved(NoBody)]

\* Settled, had a failed request been sent a second time
SettledAfterRetry(net, result) ==
    [call EXCEPT !.net = net, !.settled = TRUE, !.result = result,
                 !.fetches = IF Ok(net) THEN @ ELSE @ + 1]

\* the answer of the one request arrives and the function runs to its end:
\* no function calls fetch again
Settled(net, result) ==
    [call EXCEPT !.net = net, !.settled = TRUE, !.result = result]

\* the previous invocation has run to its end: its promise is settled and no
\* timer of a stream it returned is pending
Quiescent ==
    /\ call.settled
    /\ \A k \in 1..Len(streams) : streams[k].timer = 0

Init == call = Idle /\ streams = <<>>

\* The functions share no state, so the model follows one invocation at a
\* time, from the call to the end of everything it started.
Invoke(op, request, shouldStream, url) ==
    /\ Quiescent
    /\ call' = Invoked(op, request, shouldStream, url)
    /\ streams' = <<>>

ConfigCall ==
    Invoke("configApi", NoRequest, FALSE,
           BACKEND_URI \o <<"/", "c", "o", "n", "f", "i", "g">>)

AskCall ==
    \E request \in Requests :
        Invoke("askApi", request, FALSE, BACKEND_URI \o <<"/", "a", "s", "k">>)

ChatCall ==
    \E request \in Requests, shouldStream \in BOOLEAN :
        Invoke("chatApi", request, shouldStream, ChatUrl(shouldStream))

PassThroughCall ==
    \E op \in PassThroughOps : Invoke(op, NoRequest, FALSE, <<>>)

SpeechCall ==
    Invoke("getSpeechApi", NoRequest, FALSE, <<"/", "s", "p", "e", "e", "c", "h">>)

\* the fetch of the pending invocation rejects or resolves, and the function
\* runs from its await to its end
ConfigSettle ==
    /\ ~call.settled /\ call.op = "configApi"
    /\ \E net \in Nets : call' = Settled(net, configApi(net))
    /\ UNCHANGED streams

AskSettle ==
    /\ ~call.settled /\ call.op = "askApi"
    /\ \E net \in Nets : call' = Settled(net, askApi(call.request, net))
    /\ UNCHANGED streams

ChatSettle ==
    /\ ~call.settled /\ call.op = "chatApi"
    /\ \E net \in Nets :
          LET r == chatApi(call.request, call.shouldStream, net)
          IN  /\ call' = Settled(net, r.result)
              /\ streams' = r.streams

PassThroughSettle ==
    /\ ~call.settled /\ call.op \in PassThroughOps
    /\ \E net \in Nets : call' = Settled(net, PassThroughApi(call.op, net))
    /\ UNCHANGED streams

SpeechSettle ==
    /\ ~call.settled /\ call.op = "getSpeechApi"
    /\ \E net \in Nets : call' = Settled(net, getSpeechApi(net))
    /\ UNCHANGED streams

\* TimerFire, had the index i been one variable shared by all streams
\* instead of a local of each start()
TimerFireSharedIndex(k) ==
    /\ k \in 1..Len(streams)
    /\ streams[k].timer > 0
    /\ LET s == sendChunk([streams[k] EXCEPT !.timer = @ - 1])
       IN  streams' = [j \in 1..Len(streams) |->
                          IF j = k THEN s ELSE [streams[j] EXCEPT !.i = s.i]]
    /\ UNCHANGED call

\* the timer set by setTimeout(sendChunk, 100) fires
TimerFire(k) ==
    /\ k \in 1..Len(streams)
    /\ streams[k].timer > 0
    /\ streams' = [streams EXCEPT ![k] = sendChunk([streams[k] EXCEPT !.timer = @ - 1])]
    /\ UNCHANGED call

\* the consumer reads one queued line; the read that empties the queue of
\* a stream whose close() was called closes the stream
Read(k) ==
    /\ k \in 1..Len(streams)
    /\ streams[k].state = "readable"
    /\ streams[k].unread > 0
    /\ streams' = [streams EXCEPT
                     ![k].unread = @ - 1,
                     ![k].state = IF streams[k].unread = 1 /\ streams[k].closeRequested
                                  THEN "closed" ELSE @]
    /\ UNCHANGED call

\* the consumer cancels the stream (reader.cancel(), response.body.cancel()):
\* the queue is dropped and the stream closed; the underlying source defines
\* no cancel(), so nothing else happens
Cancel(k) ==
    /\ k \in 1..Len(streams)
    /\ streams[k].state = "readable"
    /\ streams' = [streams EXCEPT ![k].unread = 0,
                                  ![k].state = "closed",
                                  ![k].cancelled = TRUE]
    /\ UNCHANGED call

Next ==
    \/ ConfigCall
    \/ AskCall
    \/ ChatCall
    \/ PassThroughCall
    \/ SpeechCall
    \/ ConfigSettle
    \/ AskSettle
    \/ ChatSettle
    \/ PassThroughSettle
    \/ SpeechSettle
    \/ \E k \in 1..Len(streams) : TimerFire(k)
    \/ \E k \in 1..Len(streams) : Read(k)
    \/ \E k \in 1..Len(streams) : Cancel(k)

Spec == Init /\ [][Next]_vars

\* timers keep firing: a pending timer callback is eventually run
FairSpec == Spec /\ WF_vars(TimerFire(1))

(***************************************************************************)
(* Two chatApi calls in flight at once, both of whose fetches reject.  Here *)
(* call is the pair of the two invocations and streams the pair of the     *)
(* streams they return; the timer callbacks of the two streams and the     *)
(* cancellations by their consumers interleave freely.                     *)
(***************************************************************************)
\* the place of a stream that start() has not created yet
NoStream ==
    [text |-> <<>>, chunks |-> <<>>, i |-> 0, timer |-> 0,
     emitted |-> <<>>, unread |-> 0, state |-> "none",
     closeRequested |-> FALSE, cancelled |-> FALSE,
     enqueueCalls |-> 0, closeCalls |-> 0, thrown |-> 0]

\* both calls have run up to their await fetch(...)
PairInit ==
    \E first \in Messages, second \in Messages :
        /\ call = << Invoked("chatApi", [messages |-> <<first>>],
                             TRUE, ChatUrl(TRUE)),
                     Invoked("chatApi", [messages |-> <<second>>],
                             TRUE, ChatUrl(TRUE)) >>
        /\ streams = <<NoStream, NoStream>>

\* the fetch of the k-th call rejects: its catch block runs and returns the
\* Response around a new stream
PairSettle(k) ==
    /\ k \in 1..Len(call)
    /\ ~call[k].settled
    /\ LET r == chatApi(call[k].request, call[k].shouldStream, NetReject)
       IN  /\ call' = [call EXCEPT ![k].net = NetReject,
                                   ![k].settled = TRUE,
                                   ![k].result = r.result]
           /\ streams' = [streams EXCEPT ![k] = r.streams[1]]

PairNext ==
    \/ \E k \in 1..2 : PairSettle(k)
    \/ \E k \in 1..2 : TimerFire(k)
    \/ \E k \in 1..2 : Cancel(k)

\* the timers of both streams keep firing
PairSpec ==
    /\ PairInit
    /\ [][PairNext]_vars
    /\ WF_vars(TimerFire(1))
    /\ WF_vars(TimerFire(2))

(***************************************************************************)
(* The two functions that make no request: getCitationFilePath and         *)
(* getHeaders.  Each is applied once to an input drawn from a bounded set. *)
(***************************************************************************)
\* \s of a regular expression, which is also what trim() removes, as far as
\* the characters of the model go
IsWhitespace(ch) == ch \in {" ", "\t", "\n", "\r", "\f"}

\* what . of a regular expression does not match
IsLineTerminator(ch) == ch \in {"\n", "\r"}

\* /\s*\(.*?\)\s*$/ matches s from index p on: whitespace from p up to an
\* opening parenthesis at o, anything but line terminators up to a closing
\* parenthesis at c, whitespace from there to the end of s.  The pattern is
\* anchored at the end ($ without the m flag), so a match from p always
\* reaches the end of s, however lazily .*? starts.
MatchesFrom(s, p) ==
    \E o \in p..Len(s) :
        /\ \A h \in p..(o - 1) : IsWhitespace(s[h])
        /\ s[o] = "("
        /\ \E c \in (o + 1)..Len(s) :
              /\ \A h \in (o + 1)..(c - 1) : ~IsLineTerminator(s[h])
              /\ s[c] = ")"
              /\ \A h \in (c + 1)..Len(s) : IsWhitespace(s[h])

\* s.replace(/\s*\(.*?\)\s*$/, ""): the leftmost match is removed, that is,
\* everything from the first index the pattern matches from
ReplaceAnnotation(s) ==
    IF \E p \in 1..Len(s) : MatchesFrom(s, p)
    THEN LET p == CHOOSE q \in 1..Len(s) :
                     /\ MatchesFrom(s, q)
                     /\ \A h \in 1..(q - 1) : ~MatchesFrom(s, h)
         IN  SubSeq(s, 1, p - 1)
    ELSE s

\* String.prototype.trim()
Trim(s) ==
    IF \A k \in 1..Len(s) : IsWhitespace(s[k]) THEN <<>>
    ELSE LET first == CHOOSE k \in 1..Len(s) :
                         /\ ~IsWhitespace(s[k])
                         /\ \A h \in 1..(k - 1) : IsWhitespace(s[h])
             last == CHOOSE k \in 1..Len(s) :
                         /\ ~IsWhitespace(s[k])
                         /\ \A h \in (k + 1)..Len(s) : IsWhitespace(s[h])
         IN  SubSeq(s, first, last)

\* `${BACKEND_URI}/content/${cleanedCitation}`
getCitationFilePath(citation) ==
    BACKEND_URI \o <<"/", "c", "o", "n", "t", "e", "n", "t", "/">>
        \o Trim(ReplaceAnnotation(citation))

\* the characters citations are made of: a letter, a space, the two
\* parentheses and a line feed
CitationChars == {"a", " ", "(", ")", "\n"}

Citations == SeqsUpTo(CitationChars, MaxCitationLen)

\* idToken: string | undefined
IdTokens ==
    { [defined |-> FALSE, value |-> ""],
      [defined |-> TRUE, value |-> ""],
      [defined |-> TRUE, value |-> "eyJ0"],
      [defined |-> TRUE, value |-> "eyJ1"] }

\* useLogin and isUsingAppServicesLogin are imported from ../authConfig,
\* which is not among the sources: any pair of values
AuthConfigs ==
    { [useLogin |-> u, isUsingAppServicesLogin |-> a, idToken |-> t] :
        u \in BOOLEAN, a \in BOOLEAN, t \in IdTokens }

\* getHeaders without the test of isUsingAppServicesLogin
getHeadersAlsoForAppServices(auth) ==
    IF auth.useLogin /\ auth.idToken.defined /\ Truthy(auth.idToken.value)
    THEN Resolved({ <<"Authorization", <<"Bearer ", auth.idToken.value>>>> })
    ELSE Resolved({})

\* if (useLogin && !isUsingAppServicesLogin) { if (idToken) return
\* { Authorization: `Bearer ${idToken}` } } return {}.  The headers object is
\* the set of its (name, value) pairs; undefined and "" are both falsy.
getHeaders(auth) ==
    IF auth.useLogin /\ ~auth.isUsingAppServicesLogin
       /\ auth.idToken.defined /\ Truthy(auth.idToken.value)
    THEN Resolved({ <<"Authorization", <<"Bearer ", auth.idToken.value>>>> })
    ELSE Resolved({})

NoAuth ==
    [useLogin |-> FALSE, isUsingAppServicesLogin |-> FALSE,
     idToken |-> [defined |-> FALSE, value |-> ""]]

\* a call of one of the two functions, before it has run
PureCall(op, citation, auth) ==
    [op |-> op, citation |-> citation, auth |-> auth, fetches |-> 0,
     returned |-> FALSE, path |-> <<>>, headers |-> Resolved({})]

PureInit ==
    /\ streams = <<>>
    /\ call \in { PureCall("getCitationFilePath", c, NoAuth) : c \in Citations }
            \cup { PureCall("getHeaders", <<>>, a) : a \in AuthConfigs }

GetCitationFilePath ==
    /\ call.op = "getCitationFilePath" /\ ~call.returned
    /\ call' = [call EXCEPT !.returned = TRUE,
                            !.path = getCitationFilePath(call.citation)]
    /\ UNCHANGED streams

GetHeaders ==
    /\ call.op = "getHeaders" /\ ~call.returned
    /\ call' = [call EXCEPT !.returned = TRUE,
                            !.headers = getHeaders(call.auth)]
    /\ UNCHANGED streams

PureNext == GetCitationFilePath \/ GetHeaders

PureSpec == PureInit /\ [][PureNext]_vars

(***************************************************************************)
(* The claims.                                                             *)
(***************************************************************************)
\* the concatenation, in order, of a sequence of strings
RECURSIVE Flatten(_)
Flatten(ss) ==
    IF ss = <<>> THEN <<>> ELSE Head(ss) \o Flatten(Tail(ss))

\* s occurs in t as a contiguous substring (String.prototype.includes)
Includes(t, s) ==
    \E k \in 0..(Len(t) - Len(s)) : SubSeq(t, k + 1, k + Len(s)) = s

\* the invocation of op has settled
Done(op) == call.op = op /\ call.settled

\* the last message of a request with messages
LastOf(request) == request.messages[Len(request.messages)]

Is2xx(status) == status >= 200 /\ status <= 299

\* the mock ChatResponse askApi substitutes, field by field
IsAskMock(v, content) ==
    /\ DOMAIN v = {"message", "delta", "context", "session_state"}
    /\ Includes(v.message.content, content)
    /\ v.message.role = "assistant"
    /\ v.context.data_points = [text |-> <<>>, images |-> <<>>, citations |-> <<>>]
    /\ v.context.followup_questions =
          << "How do I set up the backend?",
             "What APIs need to be implemented?",
             "How do I connect to Azure OpenAI?" >>
    /\ v.context.thoughts =
          << [title |-> "Mock Response",
              description |->
                "Backend server not available - displaying demo response"] >>

\* C1: when the backend answers /ask with a 2xx status and a JSON body whose
\* error field is X, askApi rejects with a failure whose message contains X
\* and does not resolve to the mock ChatResponse.
C1_ExplicitErrorRejects ==
    ( /\ Done("askApi")
      /\ call.net.kind = "response" /\ Is2xx(call.net.status)
      /\ call.net.body.parses /\ call.net.body.hasError
      /\ call.net.body.error = "X" )
    => /\ call.result.kind = "rejected"
       /\ call.result.value.detail = "X"

\* C2: with messages and a rejected fetch, askApi resolves to a ChatResponse
\* whose message.content contains the content of the last message of the
\* request, with role assistant, empty data_points, the fixed follow-up
\* questions and the fixed backend-unavailable thoughts entry.
C2_AskMockEmbedsLastMessage ==
    ( /\ Done("askApi")
      /\ call.net.kind = "reject"
      /\ Len(call.request.messages) > 0 )
    => /\ call.result.kind = "resolved"
       /\ IsAskMock(call.result.value, LastOf(call.request).content)

\* C2's case: a request of two messages with different contents, the fetch
\* rejected, the mock returned
C2_Witness ==
    /\ Done("askApi")
    /\ call.net.kind = "reject"
    /\ Len(call.request.messages) = 2
    /\ call.request.messages[1].content # call.request.messages[2].content
    /\ call.result.kind = "resolved"

\* the contents of delta, in emission order, of the lines a stream enqueued
RECURSIVE Deltas(_)
Deltas(lines) ==
    IF lines = <<>> THEN <<>>
    ELSE <<Head(lines).object.delta.content>> \o Deltas(Tail(lines))

\* the text chatApi's catch block builds for the request of the invocation
NoticeOf(request) ==
    ChatMockPrefix \o LastOf(request).content \o ChatMockSuffix

\* the producer of the mock stream has emitted everything and called close()
Finished(s) == s.closeRequested

\* C3 as stated: the concatenation of delta.content over all chunks of the
\* mock stream equals the notice text, no character added.
C3_ConcatEqualsNotice ==
    \A k \in 1..Len(streams) :
        Finished(streams[k]) =>
            Flatten(Deltas(streams[k].emitted)) = NoticeOf(call.request)

\* C3 as amended: the concatenation of delta.content over all chunks of the
\* mock stream is the notice text followed by one space, the one that the
\* last token carries like every other; up to there no character is added,
\* dropped or doubled.
C3_ConcatIsNoticeAndSpace ==
    \A k \in 1..Len(streams) :
        Finished(streams[k]) =>
            Flatten(Deltas(streams[k].emitted)) = NoticeOf(call.request) \o <<" ">>

\* C3's case: a finished stream for a message whose content has two adjacent
\* spaces
C3_Witness ==
    /\ Len(streams) = 1
    /\ Finished(streams[1])
    /\ LastOf(call.request).content = <<"x", " ", " ", "y">>

\* the k-th piece of text between single spaces, counted from the start
RECURSIVE Token(_, _)
Token(text, k) ==
    LET first == IF \E j \in 1..Len(text) : text[j] = " "
                 THEN CHOOSE j \in 1..Len(text) :
                          text[j] = " " /\ \A h \in 1..(j - 1) : text[h] # " "
                 ELSE Len(text) + 1
    IN  IF k = 1 THEN SubSeq(text, 1, first - 1)
        ELSE Token(SubSeq(text, first + 1, Len(text)), k - 1)

\* the number of single spaces of a text
Spaces(text) == Cardinality({ j \in 1..Len(text) : text[j] = " " })

\* C4: the k-th chunk a mock stream emits carries the k-th token of the
\* notice text, for every k: whenever a step changes what a stream has
\* emitted, it appends exactly one chunk after all earlier ones, that chunk
\* is the k-th when k - 1 were emitted before, and it carries the k-th token.
\* (The first chunk is emitted by start(), every later one by one timer
\* callback.)
C4_TokensInSourceOrder ==
    [][\A k \in 1..Len(streams') :
          LET s == streams'[k]
              text == NoticeOf(call'.request)
              before == IF Len(streams) = Len(streams')
                        THEN streams[k].emitted ELSE <<>>
          IN  \/ s.emitted = before
              \/ /\ Len(s.emitted) = Len(before) + 1
                 /\ SubSeq(s.emitted, 1, Len(before)) = before
                 /\ Len(s.emitted) <= Spaces(text) + 1
                 /\ s.emitted[Len(s.emitted)].object.delta.content
                       = Token(text, Len(s.emitted)) \o <<" ">>]_vars

\* C4's case: every token of a notice around "x  y" has been emitted, the
\* empty token between the two spaces included
C4_Witness ==
    /\ Len(streams) = 1
    /\ LastOf(call.request).content = <<"x", " ", " ", "y">>
    /\ Len(streams[1].emitted) = Spaces(NoticeOf(call.request)) + 1
    /\ \E j \in 1..Len(streams[1].emitted) :
          streams[1].emitted[j].object.delta.content = <<" ">>

\* C5: once the consumer has cancelled a mock stream, no timer callback is
\* scheduled for it any more and no enqueue on it is attempted.
C5_CancelStopsTimer ==
    \A k \in 1..Len(streams) :
        streams[k].cancelled =>
            /\ streams[k].timer = 0
            /\ streams[k].enqueueCalls = Len(streams[k].emitted)

\* a mock stream exists
HasStream == Len(streams) >= 1

\* the stream is closed or closing: close() has been called on its
\* controller, or the consumer has cancelled it
Closed(s) == s.closeRequested \/ s.state = "closed"

\* what holds of controller.close() in every state of a mock stream: it is
\* called at most once, and when it has been called every token was
\* enqueued before, the final one last, no timer is pending and no enqueue
\* was attempted since
ClosedOnceAtTheEnd(s) ==
    /\ s.closeCalls <= 1
    /\ s.closeCalls = 1 =>
          /\ s.timer = 0
          /\ Len(s.emitted) = Spaces(NoticeOf(call.request)) + 1
          /\ s.enqueueCalls = Len(s.emitted)
          /\ s.emitted[Len(s.emitted)].object.delta.content
                = Token(NoticeOf(call.request), Len(s.emitted)) \o <<" ">>

\* C6: provided timers keep firing, every mock stream eventually closes;
\* close() is called at most once, only after the chunk of the final token
\* has been enqueued, and nothing is enqueued after it.
C6_StreamClosesOnceAtTheEnd ==
    /\ HasStream ~> (HasStream /\ Closed(streams[1]))
    /\ [](HasStream => ClosedOnceAtTheEnd(streams[1]))

\* C6's case: the producer has closed a stream nobody cancelled, and the
\* consumer has read it to its end
C6_Witness ==
    /\ HasStream
    /\ streams[1].closeCalls = 1
    /\ streams[1].state = "closed"
    /\ ~streams[1].cancelled
    /\ streams[1].thrown = 0

\* C7: configApi never rejects, and with an unreachable backend it resolves
\* to the fixed Config literal, in which streamingEnabled and
\* showVectorOption are true, whatever was called before.
C7_ConfigNeverRejects ==
    Done("configApi") =>
        /\ call.result.kind = "resolved"
        /\ call.net.kind = "reject" =>
              /\ call.result.value = MockConfig
              /\ call.result.value.streamingEnabled = TRUE
              /\ call.result.value.showVectorOption = TRUE
              /\ call.result.value.defaultReasoningEffort = "medium"

\* C7's case: configApi called with the backend unreachable
C7_Witness ==
    /\ Done("configApi")
    /\ call.net.kind = "reject"
    /\ call.result.kind = "resolved"

\* the operation each pass-through function names in its failure
FailureNames(op) ==
    CASE op = "uploadFileApi"         -> "Uploading files failed: "
      [] op = "deleteUploadedFileApi" -> "Deleting file failed: "
      [] op = "listUploadedFilesApi"  -> "Listing files failed: "
      [] op = "postChatHistoryApi"    -> "Posting chat history failed: "
      [] op = "getChatHistoryListApi" -> "Getting chat histories failed: "
      [] op = "getChatHistoryApi"     -> "Getting chat history failed: "
      [] op = "deleteChatHistoryApi"  -> "Deleting chat history failed: "

\* C8: each of the seven pass-through functions, on a response whose status
\* is not 2xx, rejects with a failure that names the operation and carries
\* the status text of the response; it resolves to nothing.
C8_PassThroughRejectsNon2xx ==
    ( /\ call.op \in PassThroughOps /\ call.settled
      /\ call.net.kind = "response" /\ ~Is2xx(call.net.status) )
    => /\ call.result.kind = "rejected"
       /\ call.result.value.name = "Error"
       /\ call.result.value.prefix = FailureNames(call.op)
       /\ call.result.value.detail = call.net.statusText

\* C8's case: uploadFileApi answered with 500 Internal Server Error
C8_Witness ==
    /\ Done("uploadFileApi")
    /\ call.net.kind = "response"
    /\ call.net.status = 500
    /\ call.net.statusText = "Internal Server Error"
    /\ call.result.kind = "rejected"

\* a failure that askApi masks: the fetch rejects, the status is outside
\* 200-299, or the body is not JSON
MaskedFailure(net) ==
    \/ net.kind = "reject"
    \/ net.kind = "response" /\ ~Is2xx(net.status)
    \/ net.kind = "response" /\ ~net.body.parses

\* C9: askApi with messages never rejects on a masked failure: it resolves
\* to the mock ChatResponse.
C9_AskMasksFailures ==
    ( /\ Done("askApi")
      /\ Len(call.request.messages) > 0
      /\ MaskedFailure(call.net) )
    => /\ call.result.kind = "resolved"
       /\ IsAskMock(call.result.value, LastOf(call.request).content)

\* C9's case: the backend answered /ask with status 500 and a JSON body
C9_Witness ==
    /\ Done("askApi")
    /\ Len(call.request.messages) > 0
    /\ call.net.kind = "response"
    /\ call.net.status = 500
    /\ call.net.body.parses
    /\ call.result.kind = "resolved"

\* C10: when the backend answers /chat or /chat/stream with a status that is
\* not 2xx, chatApi returns the mock stream: the caller never receives a
\* Response whose status is not 2xx.
C10_ChatMasksNon2xx ==
    ( /\ Done("chatApi")
      /\ call.net.kind = "response" /\ ~Is2xx(call.net.status) )
    => /\ call.result.kind = "resolved"
       /\ call.result.value.source = "mock"
       /\ Is2xx(call.result.value.status)

\* C11: when the backend answers /config with a status that is not 2xx,
\* configApi resolves to the fixed default Config literal and not to the
\* parsed body of that response.
C11_ConfigMasksNon2xx ==
    ( /\ Done("configApi")
      /\ call.net.kind = "response" /\ ~Is2xx(call.net.status) )
    => /\ call.result.kind = "resolved"
       /\ "streamingEnabled" \in DOMAIN call.result.value
       /\ call.result.value = MockConfig

\* C12: getSpeechApi never rejects; it resolves to an audio resource handle
\* exactly when the response status is 200, and to null for status 400, for
\* any other status and for a transport failure.
C12_SpeechNeverRejects ==
    Done("getSpeechApi") =>
        /\ call.result.kind = "resolved"
        /\ ~call.result.value.isNull
              <=> (call.net.kind = "response" /\ call.net.status = 200)

\* getCitationFilePath has returned
CitationDone == call.op = "getCitationFilePath" /\ call.returned

\* the content-serving prefix
ContentPrefix == <<"/", "c", "o", "n", "t", "e", "n", "t", "/">>

IsParen(ch) == ch \in {"(", ")"}

\* the citation is one line whose parentheses form groups "(...)" one after
\* the other, none inside another and none left open
PlainGroups(c) ==
    LET ps == SelectSeq(c, IsParen)
    IN  /\ \A k \in 1..Len(c) : c[k] # "\n"
        /\ Len(ps) % 2 = 0
        /\ \A k \in 1..Len(ps) : ps[k] = IF k % 2 = 1 THEN "(" ELSE ")"

NumberOfGroups(c) == Cardinality({ k \in 1..Len(c) : c[k] = "(" })

\* where the last group of a citation with groups opens and closes
LastOpen(c) == CHOOSE q \in 1..Len(c) : c[q] = "(" /\ \A h \in (q + 1)..Len(c) : c[h] # "("

LastClose(c) == CHOOSE q \in 1..Len(c) : c[q] = ")" /\ \A h \in (q + 1)..Len(c) : c[h] # ")"

\* the citation ends with a parenthesized annotation: its last group is
\* followed by nothing but whitespace
EndsWithAnnotation(c) ==
    /\ PlainGroups(c)
    /\ NumberOfGroups(c) >= 1
    /\ \A h \in (LastClose(c) + 1)..Len(c) : c[h] \in {" ", "\t"}

\* the citation without its trailing annotation, if it has one
WithoutTrailingAnnotation(c) ==
    IF EndsWithAnnotation(c) THEN SubSeq(c, 1, LastOpen(c) - 1) ELSE c

\* C13: getCitationFilePath(c) is the content prefix followed by c with its
\* trailing parenthesized annotation stripped, and by c unchanged when c has
\* no parenthetical; no request is made.  Stated for the citations whose
\* groups are plain, and up to the whitespace at both ends that trim()
\* removes.
C13_CitationPathStripsTrailingAnnotation ==
    (CitationDone /\ PlainGroups(call.citation)) =>
        /\ call.fetches = 0
        /\ call.path = ContentPrefix \o Trim(WithoutTrailingAnnotation(call.citation))

\* what getHeaders is to return for the login flag, the app services flag
\* and the token: one Authorization header when the flag is on, app services
\* login is not in use and there is a token (a non-empty string), none
\* otherwise
ExpectedHeaders(auth) ==
    IF /\ auth.useLogin
       /\ ~auth.isUsingAppServicesLogin
       /\ auth.idToken.defined /\ auth.idToken.value # ""
    THEN { <<"Authorization", <<"Bearer ", auth.idToken.value>>>> }
    ELSE {}

\* C14: getHeaders returns exactly the header Authorization: Bearer <token>
\* when the login flag is enabled, app services login is not in use and a
\* token is supplied; in every other combination it returns no header, and
\* it never fails.
C14_HeadersOnlyWithLoginAndToken ==
    (call.op = "getHeaders" /\ call.returned) =>
        /\ call.headers.kind = "resolved"
        /\ call.headers.value = ExpectedHeaders(call.auth)
        /\ call.fetches = 0

\* C14's case: the flag is on, app services login is off and a token is
\* given: the header is returned
C14_Witness ==
    /\ call.op = "getHeaders" /\ call.returned
    /\ call.auth.useLogin /\ ~call.auth.isUsingAppServicesLogin
    /\ call.auth.idToken.value = "eyJ0"
    /\ call.headers.value = { <<"Authorization", <<"Bearer ", "eyJ0">>>> }

\* C20: of a citation with several parenthesized groups that ends with one,
\* getCitationFilePath removes the final group only: the text before it is
\* kept, earlier groups included.
C20_OnlyFinalAnnotationRemoved ==
    ( /\ CitationDone
      /\ EndsWithAnnotation(call.citation)
      /\ NumberOfGroups(call.citation) >= 2 )
    => /\ NumberOfGroups(call.path) = NumberOfGroups(call.citation) - 1
       /\ call.path = ContentPrefix
                        \o Trim(SubSeq(call.citation, 1, LastOpen(call.citation) - 1))

\* the gateway operations, all of which make a request
GatewayOps ==
    {"configApi", "askApi", "chatApi", "getSpeechApi"} \cup PassThroughOps

\* the request of the invocation failed: at transport, or with a status
\* that is not 2xx
Failed(net) ==
    \/ net.kind = "reject"
    \/ net.kind = "response" /\ ~Is2xx(net.status)

EndOfValue(text) ==
    LET Backslashes(p) ==
            Cardinality({ h \in 1..(p - 1) :
                            \A g \in h..(p - 1) : text[g] = "\\" })
        Quotes == { p \in 1..Len(text) :
                      text[p] = "\"" /\ Backslashes(p) % 2 = 0 }
        Outside(p) == Cardinality({ q \in Quotes : q < p }) % 2 = 0
        Openers == { p \in 1..Len(text) :
                       text[p] \in {"{", "["} /\ Outside(p) }
        Closers == { p \in 1..Len(text) :
                       text[p] \in {"}", "]"} /\ Outside(p) }
        Depth(p) == Cardinality({ q \in Openers : q <= p })
                      - Cardinality({ q \in Closers : q <= p })
        Ends == { p \in Closers : Depth(p) = 0 }
    IN  IF Ends = {} THEN 0
        ELSE CHOOSE p \in Ends : \A q \in Ends : p <= q

\* a text is one JSON object followed by one newline: the object that opens
\* at the first character ends at the last but one, and the only newline of
\* the text is its last character
OneObjectAndNewline(text) ==
    /\ Len(text) >= 3
    /\ text[1] = "{"
    /\ EndOfValue(text) = Len(text) - 1
    /\ \A j \in 1..Len(text) : text[j] = "\n" <=> j = Len(text)

\* the framing of the n-th unit a mock stream has enqueued
FramedAsChunk(s, n) ==
    LET line == s.emitted[n]
        chunk == line.object
    IN  /\ OneObjectAndNewline(Encoded(line))
        /\ chunk.delta.content = s.chunks[n] \o <<" ">>
        /\ \A j \in 1..Len(s.chunks[n]) : s.chunks[n][j] # " "
        /\ chunk.delta.role = "assistant"
        /\ chunk.message.role = "assistant"
        /\ chunk.context.data_points.text = <<>>
        /\ chunk.context.data_points.images = <<>>
        /\ chunk.context.data_points.citations = <<>>
        /\ chunk.context.followup_questions = "null"

\* C16: the fabricated response of chatApi is framed like a real streaming
\* response: its Content-Type is application/x-ndjson, and the unit enqueued
\* last (every unit is the last one in the state its enqueue leads to) is
\* one JSON object followed by one newline, with delta.content one token and
\* one trailing space, role assistant, empty data_points and null
\* followup_questions.
C16_MockFramedAsNdjson ==
    /\ ( Done("chatApi") /\ call.result.kind = "resolved"
         /\ call.result.value.source = "mock" )
       => call.result.value.contentType = "application/x-ndjson"
    /\ \A k \in 1..Len(streams) :
          Len(streams[k].emitted) >= 1 =>
              FramedAsChunk(streams[k], Len(streams[k].emitted))

\* C16's case: the unit enqueued last carries a token with a quote and a
\* newline in it, which the line has to carry escaped
C16_Witness ==
    /\ Done("chatApi") /\ call.result.kind = "resolved"
    /\ call.result.value.source = "mock"
    /\ Len(streams) = 1 /\ Len(streams[1].emitted) >= 1
    /\ LET token == streams[1].chunks[Len(streams[1].emitted)]
       IN  /\ \E j \in 1..Len(token) : token[j] = "\n"
           /\ \E j \in 1..Len(token) : token[j] = "\""

\* C17: chatApi sends its request to /chat/stream exactly when shouldStream
\* is true and to /chat otherwise; when the fetch resolves with a 2xx status
\* the promise resolves to the response of the network as it came: same
\* status, its body as received, not read and not framed anew, and no stream
\* of chatApi's own.
C17_PathBySuffixAndResponseUntouched ==
    call.op = "chatApi" =>
        /\ call.shouldStream
              => call.url = <<"/", "c", "h", "a", "t",
                              "/", "s", "t", "r", "e", "a", "m">>
        /\ ~call.shouldStream => call.url = <<"/", "c", "h", "a", "t">>
        /\ ( call.settled /\ call.net.kind = "response"
             /\ Is2xx(call.net.status) )
           => /\ call.result.kind = "resolved"
              /\ call.result.value.source = "network"
              /\ call.result.value.status = call.net.status
              /\ call.result.value.body = call.net.body
              /\ streams = <<>>

\* C17's case: a streaming chat request was answered with a 2xx status
\* other than 200 and a body
C17_Witness ==
    /\ Done("chatApi") /\ call.shouldStream
    /\ call.net.kind = "response" /\ call.net.status = 299
    /\ call.net.body # NoBody
    /\ call.result.kind = "resolved"

\* the request has a message whose role is user
HasUserMessage(request) ==
    \E j \in 1..Len(request.messages) : request.messages[j].role = "user"

\* the last message of a request whose role is user
LastUserMessage(request) ==
    LET last == CHOOSE j \in 1..Len(request.messages) :
                    /\ request.messages[j].role = "user"
                    /\ \A h \in (j + 1)..Len(request.messages) :
                          request.messages[h].role # "user"
    IN  request.messages[last]

\* C19: the text the mock ChatResponse of askApi embeds is the content of
\* the last message of the request whose role is user, also when the final
\* message has role assistant or system.
C19_AskMockEmbedsLastUserMessage ==
    ( /\ Done("askApi")
      /\ call.net.kind = "reject"
      /\ HasUserMessage(call.request) )
    => /\ call.result.kind = "resolved"
       /\ call.result.value.message.content
             = AskMockPrefix \o LastUserMessage(call.request).content
                 \o AskMockSuffix

\* the stream of the k-th of two calls is the stream of its own request:
\* its text is the notice built for that request and its tokens are the
\* tokens of that text (they are set once, so they are compared when the
\* stream has emitted its first line only); the line it emitted last is the
\* line of its own token at its own index; close() was called only after
\* its last token
EmitsItsOwn(k) ==
    LET s == streams[k]
    IN  s.state # "none" =>
            /\ s.text = NoticeOf(call[k].request)
            /\ s.i = 1 => s.chunks = Split(s.text, Space)
            /\ s.i = Len(s.emitted)
            /\ s.i >= 1 /\ s.i <= Len(s.chunks)
            /\ s.emitted[s.i] = NdjsonLine(Chunk(s.chunks[s.i]))
            /\ s.closeRequested => s.i = Len(s.chunks)

\* what a step may change of the k-th stream once it exists: nothing of its
\* text and tokens, and of its emitted lines nothing but one more at the end
KeepsItsOwn(k) ==
    streams[k].state # "none" =>
        /\ streams'[k].text = streams[k].text
        /\ streams'[k].chunks = streams[k].chunks
        /\ \/ streams'[k].emitted = streams[k].emitted
           \/ /\ Len(streams'[k].emitted) = Len(streams[k].emitted) + 1
              /\ SubSeq(streams'[k].emitted, 1, Len(streams[k].emitted))
                    = streams[k].emitted

\* C18: two chatApi calls whose fetches fail are independent.  Under every
\* interleaving of the timer callbacks each stream emits its own request's
\* tokens in order; a step in which one stream progresses, closes or is
\* cancelled leaves the index, the emitted chunks and the closing of the
\* other as they were; and each stream that its consumer does not cancel
\* comes to close with all of its tokens emitted, whatever happens to the
\* other.
C18_ConcurrentStreamsIndependent ==
    /\ [](EmitsItsOwn(1) /\ EmitsItsOwn(2))
    /\ [][ /\ KeepsItsOwn(1) /\ KeepsItsOwn(2)
           /\ streams'[1] # streams[1] => streams'[2] = streams[2]
           /\ streams'[2] # streams[2] => streams'[1] = streams[1] ]_vars
    /\ \A k \in 1..2 :
          (streams[k].state # "none")
             ~> (streams[k].cancelled
                 \/ ( /\ streams[k].closeRequested
                      /\ Len(streams[k].emitted) = Len(streams[k].chunks) ))

\* C18's case: the two calls had different requests, the first stream was
\* cancelled part of the way while the second went on and closed with all
\* of its tokens
C18_Witness ==
    /\ Len(streams) = 2
    /\ streams[1].state # "none" /\ streams[2].state # "none"
    /\ streams[1].text # streams[2].text
    /\ streams[1].cancelled
    /\ streams[1].i > 1 /\ streams[1].i < Len(streams[1].chunks)
    /\ streams[2].closeRequested
    /\ Len(streams[2].emitted) = Len(streams[2].chunks)

\* what holds of the producer of one mock stream in every state: its index
\* lies between 0 and the number of tokens, the number of chunks enqueued so
\* far is the index, at most one timer callback is pending, and none is
\* pending once the producer has closed the stream
ProducerInStep(s) ==
    /\ s.i >= 0 /\ s.i <= Len(s.chunks)
    /\ Len(s.emitted) = s.i
    /\ s.timer \in {0, 1}
    /\ s.closeRequested => s.timer = 0

\* C21: in every reachable state of one mock stream the token index i
\* satisfies 0 <= i <= number of tokens, the number of chunks enqueued so
\* far equals i, at most one timer callback is pending and none is pending
\* once the stream has been closed (by the producer's controller.close()
\* after the last token); and no step of the stream decreases i.
C21_ProducerInvariants ==
    /\ [](\A k \in 1..Len(streams) : ProducerInStep(streams[k]))
    /\ [][\A k \in 1..Len(streams) :
             k <= Len(streams') => streams'[k].i >= streams[k].i]_vars

\* C21's case: the producer has closed a stream with all of its tokens
\* enqueued, part of them read by then
C21_Witness ==
    /\ Len(streams) = 1
    /\ streams[1].closeRequested
    /\ streams[1].i = Len(streams[1].chunks)
    /\ streams[1].i > 1
    /\ streams[1].unread > 0 /\ streams[1].unread < streams[1].i

\* the promise is rejected with the TypeError of reading a property of
\* undefined
RejectedWithTypeError(result) ==
    /\ result.kind = "rejected"
    /\ result.value.name = "TypeError"
    /\ result.value.detail = "content"

\* C22: a request with no messages is not validated before dispatch: it is
\* sent like any other, and when its fetch fails the fallback of askApi, and
\* likewise of chatApi, produces no mock result: the call rejects with the
\* TypeError of reading the content of a last message that does not exist,
\* and chatApi creates no stream.
C22_EmptyMessagesRejects ==
    ( /\ call.op \in {"askApi", "chatApi"}
      /\ Len(call.request.messages) = 0 )
    => /\ call.fetches = 1
       /\ ( /\ call.settled
            /\ \/ call.net.kind = "reject"
               \/ /\ call.op = "askApi"
                  /\ call.net.kind = "response" /\ ~Is2xx(call.net.status) )
          => /\ RejectedWithTypeError(call.result)
             /\ streams = <<>>

\* C22's case: chatApi was called with no messages, its fetch rejected and
\* the call is rejected
C22_Witness ==
    /\ Done("chatApi")
    /\ Len(call.request.messages) = 0
    /\ call.net.kind = "reject"
    /\ call.result.kind = "rejected"

\* C22's case for askApi: no messages and an answer with status 500
C22_WitnessAsk ==
    /\ Done("askApi")
    /\ Len(call.request.messages) = 0
    /\ call.net.kind = "response" /\ call.net.status = 500
    /\ call.result.kind = "rejected"

\* C23: the fallback of chatApi does not depend on shouldStream.  In the
\* step in which a call with messages settles on a rejected fetch, with
\* shouldStream false as with true, the promise resolves to a Response with
\* Content-Type application/x-ndjson around one new stream of the notice
\* text built for the request, split into its tokens, the first of them
\* enqueued and a timer set for the next; response and stream are those of
\* the same call made with the other value of shouldStream.
C23_FallbackIgnoresShouldStream ==
    [][ ( /\ call.op = "chatApi" /\ ~call.settled /\ call'.settled
          /\ call'.net.kind = "reject"
          /\ Len(call.request.messages) > 0 )
        => /\ call'.result.kind = "resolved"
           /\ call'.result.value.source = "mock"
           /\ call'.result.value.contentType = "application/x-ndjson"
           /\ Len(streams') = 1
           /\ streams'[1].text = NoticeOf(call.request)
           /\ streams'[1].chunks = Split(NoticeOf(call.request), Space)
           /\ Len(streams'[1].chunks) > 1
           /\ Len(streams'[1].emitted) = 1
           /\ streams'[1].timer = 1
           /\ LET other == chatApi(call.request, ~call.shouldStream, call'.net)
              IN  /\ call'.result = other.result
                  /\ streams' = other.streams ]_vars

\* C23's case: a call with shouldStream false whose fetch was rejected has
\* got a stream that went on token by token to its end
C23_Witness ==
    /\ Done("chatApi") /\ ~call.shouldStream
    /\ call.net.kind = "reject"
    /\ call.result.kind = "resolved"
    /\ Len(streams) = 1
    /\ streams[1].closeRequested
    /\ Len(streams[1].emitted) = Len(streams[1].chunks)
    /\ Len(streams[1].emitted) > 1

====
